---- MODULE Spec2Model ----
(***************************************************************************)
(* Ledger of the bekar_bank transaction subsystem: the views and forms of   *)
(* src/transactions (deposit, withdraw, transfer, loan request, loan        *)
(* payoff) acting on the UserBankAccount balances and the Transaction       *)
(* table.  The views run in Django's autocommit mode with no lock and no    *)
(* transaction.atomic block, so every ORM query (a SELECT that loads a      *)
(* model instance, a save(), a count()) is one atomic step and the steps of *)
(* different requests interleave.  Computation on the in-memory instances   *)
(* between two queries is folded into the query that follows or precedes    *)
(* it.                                                                      *)
(***************************************************************************)
EXTENDS Integers, Sequences, FiniteSets, TLC

VARIABLES
    balance,   \* UserBankAccount.balance in the database, per account
    txns,      \* the Transaction table; a row's id is its index
    req,       \* per web worker: the request it is serving
    nreq,      \* number of requests started so far
    faults,    \* number of notification (e-mail) failures so far
    report     \* the last answer of the transaction report view

vars == <<balance, txns, req, nreq, faults, report>>

-----------------------------------------------------------------------------
(* Bounds of the model *)

MaxRequests == 2
MaxSeqRequests == 2

Workers == {1, 2}
SeqWorker == CHOOSE w \in Workers : \A v \in Workers : w <= v
SeqUser == "A"

Users == {"A", "B"}
UserId(u) == IF u = "A" THEN 1 ELSE 2

\* Opening balances: 0 is a freshly registered account, any other value is
\* an account that has made one deposit of that amount.  The concurrent
\* server starts with both accounts at the same opening balance.
OpeningBalances == {0, 1000}
BoundaryBalances == {0, 500, 1000, 20000, 25000}

DepositAmounts == {99, 100}
WithdrawAmounts == {500, 600}
TransferAmounts == {500, 600}
LoanAmounts == {500}
BoundaryAmounts == {99, 100, 499, 500, 600, 20000, 20001}

-----------------------------------------------------------------------------
(* Program constants *)

min_deposit_amount == 100
min_withdraw_amount == 500
max_withdraw_amount == 20000
min_transfer_amount == 500
max_transfer_amount == 20000
LoanLimit == 3

\* transaction_type values; views.py filters loans with the literal 3, the
\* value of LOAN.
DEPOSIT == "DEPOSIT"
WITHDRAWAL == "WITHDRAWAL"
LOAN == "LOAN"
LOAN_PAID == "LOAN_PAID"
TRANSFER == "TRANSFER"

\* UserRegistrationForm.save: account_no = 100000 + our_user.id
AccountNo(u) == 100000 + UserId(u)
AccountNos == {AccountNo(u) : u \in Users} \cup {100000 + 3}
AccountByNo(n) == CHOOSE u \in Users : AccountNo(u) = n

-----------------------------------------------------------------------------
(* The Transaction model and the forms *)

\* A row of the Transaction table.
Transaction(account, amount, kind, balance_after, approve) ==
    [account |-> account, amount |-> amount, transaction_type |-> kind,
     balance_after_transaction |-> balance_after, loan_approve |-> approve]

NoTransaction == Transaction("A", 0, "none", 0, FALSE)

\* clean_amount refusing the minimum itself.
DepositCleanAmount_ExclusiveMinimum(amount) == ~(amount <= min_deposit_amount)

\* DepositForm.clean_amount: TRUE when the amount passes.
DepositCleanAmount(amount) == ~(amount < min_deposit_amount)

\* clean_amount without the comparison with the balance.
WithdrawCleanAmount_NoBalanceCheck(acct_balance, amount) ==
    /\ ~(amount < min_withdraw_amount)
    /\ ~(amount > max_withdraw_amount)

\* clean_amount refusing an amount equal to the balance.
WithdrawCleanAmount_RejectsWholeBalance(acct_balance, amount) ==
    /\ ~(amount < min_withdraw_amount)
    /\ ~(amount > max_withdraw_amount)
    /\ ~(amount >= acct_balance)

\* WithdrawForm.clean_amount against the balance of the loaded account.
WithdrawCleanAmount(acct_balance, amount) ==
    /\ ~(amount < min_withdraw_amount)
    /\ ~(amount > max_withdraw_amount)
    /\ ~(amount > acct_balance)

\* LoanRequestForm.clean_amount returns the amount unchecked.
LoanCleanAmount(amount) == TRUE

\* TransferRequestForm.clean_account_no: the account number must exist.
TransferCleanAccountNo(account_no) ==
    \E u \in Users : AccountNo(u) = account_no

\* clean_amount without the comparison with the sender's balance.
TransferCleanAmount_NoBalanceCheck(acct_balance, amount) ==
    /\ ~(amount < min_transfer_amount)
    /\ ~(amount > max_transfer_amount)

\* TransferRequestForm.clean_amount against the sender's loaded balance.
TransferCleanAmount(acct_balance, amount) ==
    /\ ~(amount < min_transfer_amount)
    /\ ~(amount > max_transfer_amount)
    /\ ~(amount > acct_balance)

\* TransactionForm.save: the new row takes the form's account and the
\* balance of the in-memory account instance; loan_approve defaults to False.
TransactionFormSave(r, kind) ==
    Transaction(r.user, r.amount, kind, r.acct_balance, FALSE)

-----------------------------------------------------------------------------
(* Requests *)

\* pc: the next query of the request; acct_balance: balance attribute of the
\* in-memory account instance (request.user.account, or loan.account in
\* PayLoanView); recv_balance: balance attribute of receiver_account;
\* loan: the in-memory Transaction instance of PayLoanView.
Request(pc, op, user, amount, account_no, loan_id, acct_balance, recv_balance, loan, result) ==
    [pc |-> pc, op |-> op, user |-> user, amount |-> amount,
     account_no |-> account_no, loan_id |-> loan_id,
     acct_balance |-> acct_balance, recv_balance |-> recv_balance,
     loan |-> loan, result |-> result]

IdleRequest == Request("idle", "none", "A", 0, 0, 0, 0, 0, NoTransaction, "none")

\* A request ends: its in-memory instances are gone, the worker is free again
\* and keeps what it was asked and what it answered.
Finish(r, result) ==
    [r EXCEPT !.pc = "idle", !.result = result, !.acct_balance = 0,
              !.recv_balance = 0, !.loan = NoTransaction]

Idle(w) == req[w].pc = "idle"

\* The server hands a new request to the first free worker.
Free(w) == Idle(w) /\ \A v \in Workers : v < w => ~Idle(v)
AllIdle == \A w \in Workers : Idle(w)

\* The balance the template is given: a number, or None.
Shown(amount) == <<amount>>
None == <<>>

\* An answer of TransactionReportView: the user, the rows from..to the date
\* range selected (0, 0 when no range was given) and the balance shown.
Report(user, from, to, shown) ==
    [user |-> user, from |-> from, to |-> to, balance |-> shown]

NoReport == Report("A", 0, 0, Shown(0))

OpeningLog(bal) ==
    LET dep(u) == IF bal[u] = 0 THEN <<>>
                  ELSE <<Transaction(u, bal[u], DEPOSIT, bal[u], FALSE)>>
    IN dep("A") \o dep("B")

Init ==
    /\ balance \in {[u \in Users |-> b] : b \in OpeningBalances}
    /\ txns = OpeningLog(balance)
    /\ req = [w \in Workers |-> IdleRequest]
    /\ nreq = 0
    /\ faults = 0
    /\ report = NoReport

-----------------------------------------------------------------------------
(* DepositMoneyView *)

\* post(): get_form_kwargs loads request.user.account, is_valid() runs
\* DepositForm.clean_amount; an invalid form is rendered back.
DepositStart(w, u, amount, limit) ==
    /\ Free(w)
    /\ nreq < limit
    /\ nreq' = nreq + 1
    /\ LET r == Request("dep_save", "deposit", u, amount, 0, 0, balance[u],
                        0, NoTransaction, "none")
       IN req' = [req EXCEPT ![w] =
                    IF DepositCleanAmount(amount) THEN r
                    ELSE Finish(r, "rejected")]
    /\ UNCHANGED <<balance, txns, faults, report>>

\* form_valid: account.balance += amount; account.save(update_fields=['balance'])
DepositSave(w) ==
    /\ req[w].pc = "dep_save"
    /\ LET new == req[w].acct_balance + req[w].amount
       IN /\ balance' = [balance EXCEPT ![req[w].user] = new]
          /\ req' = [req EXCEPT ![w].acct_balance = new, ![w].pc = "dep_log"]
    /\ UNCHANGED <<txns, nreq, faults, report>>

\* form_valid: the e-mail is sent, then super().form_valid(form) saves the form.
DepositLog(w) ==
    /\ req[w].pc = "dep_log"
    /\ txns' = Append(txns, TransactionFormSave(req[w], DEPOSIT))
    /\ req' = [req EXCEPT ![w] = Finish(req[w], "ok")]
    /\ UNCHANGED <<balance, nreq, faults, report>>

-----------------------------------------------------------------------------
(* WithdrawMoneyView *)

\* post(): loads request.user.account and runs WithdrawForm.clean_amount.
WithdrawStart(w, u, amount, limit) ==
    /\ Free(w)
    /\ nreq < limit
    /\ nreq' = nreq + 1
    /\ LET r == Request("wd_save", "withdraw", u, amount, 0, 0, balance[u],
                        0, NoTransaction, "none")
       IN req' = [req EXCEPT ![w] =
                    IF WithdrawCleanAmount(balance[u], amount) THEN r
                    ELSE Finish(r, "rejected")]
    /\ UNCHANGED <<balance, txns, faults, report>>

\* The save with the sign of the amount slipped.
WithdrawSave_AddsAmount(w) ==
    /\ req[w].pc = "wd_save"
    /\ LET new == req[w].acct_balance + req[w].amount
       IN /\ balance' = [balance EXCEPT ![req[w].user] = new]
          /\ req' = [req EXCEPT ![w].acct_balance = new, ![w].pc = "wd_log"]
    /\ UNCHANGED <<txns, nreq, faults, report>>

\* form_valid: account.balance -= amount; account.save(update_fields=['balance'])
WithdrawSave(w) ==
    /\ req[w].pc = "wd_save"
    /\ LET new == req[w].acct_balance - req[w].amount
       IN /\ balance' = [balance EXCEPT ![req[w].user] = new]
          /\ req' = [req EXCEPT ![w].acct_balance = new, ![w].pc = "wd_log"]
    /\ UNCHANGED <<txns, nreq, faults, report>>

\* form_valid: the e-mail is sent, then super().form_valid(form) saves the form.
WithdrawLog(w) ==
    /\ req[w].pc = "wd_log"
    /\ txns' = Append(txns, TransactionFormSave(req[w], WITHDRAWAL))
    /\ req' = [req EXCEPT ![w] = Finish(req[w], "ok")]
    /\ UNCHANGED <<balance, nreq, faults, report>>

-----------------------------------------------------------------------------
(* TransferMoneyView *)

\* post(): loads request.user.account, runs clean_amount and clean_account_no.
TransferStart(w, u, amount, account_no, limit) ==
    /\ Free(w)
    /\ nreq < limit
    /\ nreq' = nreq + 1
    /\ LET r == Request("xfer_get", "transfer", u, amount, account_no, 0,
                        balance[u], 0, NoTransaction, "none")
       IN req' = [req EXCEPT ![w] =
                    IF /\ TransferCleanAmount(balance[u], amount)
                       /\ TransferCleanAccountNo(account_no)
                    THEN r
                    ELSE Finish(r, "rejected")]
    /\ UNCHANGED <<balance, txns, faults, report>>

\* form_valid: receiver_account = UserBankAccount.objects.get(account_no=...),
\* a second instance even when it is the sender's own row; then
\* self.request.user.account.balance -= amount; receiver_account.balance += amount
TransferGet(w) ==
    /\ req[w].pc = "xfer_get"
    /\ req' = [req EXCEPT
                 ![w].recv_balance =
                     balance[AccountByNo(req[w].account_no)] + req[w].amount,
                 ![w].acct_balance = req[w].acct_balance - req[w].amount,
                 ![w].pc = "xfer_save_recv"]
    /\ UNCHANGED <<balance, txns, nreq, faults, report>>

\* form_valid: receiver_account.save(update_fields=['balance'])
TransferSaveReceiver(w) ==
    /\ req[w].pc = "xfer_save_recv"
    /\ balance' = [balance EXCEPT
                     ![AccountByNo(req[w].account_no)] = req[w].recv_balance]
    /\ req' = [req EXCEPT ![w].pc = "xfer_save_send"]
    /\ UNCHANGED <<txns, nreq, faults, report>>

\* form_valid: self.request.user.account.save(update_fields=['balance'])
TransferSaveSender(w) ==
    /\ req[w].pc = "xfer_save_send"
    /\ balance' = [balance EXCEPT ![req[w].user] = req[w].acct_balance]
    /\ req' = [req EXCEPT ![w].pc = "xfer_log"]
    /\ UNCHANGED <<txns, nreq, faults, report>>

\* form_valid: both e-mails are sent, then super().form_valid(form) saves the
\* form: one row, on the sender's account.
TransferLog(w) ==
    /\ req[w].pc = "xfer_log"
    /\ txns' = Append(txns, TransactionFormSave(req[w], TRANSFER))
    /\ req' = [req EXCEPT ![w] = Finish(req[w], "ok")]
    /\ UNCHANGED <<balance, nreq, faults, report>>

-----------------------------------------------------------------------------
(* LoanRequestView *)

\* post(): loads request.user.account and runs LoanRequestForm.clean_amount.
LoanStart(w, u, amount, limit) ==
    /\ Free(w)
    /\ nreq < limit
    /\ nreq' = nreq + 1
    /\ LET r == Request("loan_count", "loan", u, amount, 0, 0, balance[u],
                        0, NoTransaction, "none")
       IN req' = [req EXCEPT ![w] =
                    IF LoanCleanAmount(amount) THEN r
                    ELSE Finish(r, "rejected")]
    /\ UNCHANGED <<balance, txns, faults, report>>

\* The count over every loan row of the account, approved or not.
CurrentLoanCount_IgnoresApproval(u) ==
    Cardinality({i \in DOMAIN txns :
                    /\ txns[i].account = u
                    /\ txns[i].transaction_type = LOAN})

\* Transaction.objects.filter(account=..., transaction_type=3,
\*                            loan_approve=True).count()
CurrentLoanCount(u) ==
    Cardinality({i \in DOMAIN txns :
                    /\ txns[i].account = u
                    /\ txns[i].transaction_type = LOAN
                    /\ txns[i].loan_approve})

\* form_valid: the count query; at the limit the view answers "You have
\* crossed the loan limit" and saves nothing.
LoanCount(w) ==
    /\ req[w].pc = "loan_count"
    /\ req' = [req EXCEPT ![w] =
                 IF CurrentLoanCount(req[w].user) >= LoanLimit
                 THEN Finish(req[w], "rejected")
                 ELSE [req[w] EXCEPT !.pc = "loan_log"]]
    /\ UNCHANGED <<balance, txns, nreq, faults, report>>

\* form_valid crediting the account with the amount asked for.
LoanLog_CreditsBalance(w) ==
    /\ req[w].pc = "loan_log"
    /\ txns' = Append(txns, TransactionFormSave(req[w], LOAN))
    /\ balance' = [balance EXCEPT ![req[w].user] = @ + req[w].amount]
    /\ req' = [req EXCEPT ![w] = Finish(req[w], "ok")]
    /\ UNCHANGED <<nreq, faults, report>>

\* form_valid: the e-mail is sent, then super().form_valid(form) saves the form.
LoanLog(w) ==
    /\ req[w].pc = "loan_log"
    /\ txns' = Append(txns, TransactionFormSave(req[w], LOAN))
    /\ req' = [req EXCEPT ![w] = Finish(req[w], "ok")]
    /\ UNCHANGED <<balance, nreq, faults, report>>

\* Manual approval of a requested loan (the admin sets loan_approve).
ApproveLoan(id) ==
    /\ id \in DOMAIN txns
    /\ txns[id].transaction_type = LOAN
    /\ ~txns[id].loan_approve
    /\ txns' = [txns EXCEPT ![id].loan_approve = TRUE]
    /\ UNCHANGED <<balance, req, nreq, faults, report>>

-----------------------------------------------------------------------------
(* PayLoanView *)

\* get(): loan = get_object_or_404(Transaction, id=loan_id); nothing is done
\* unless loan.loan_approve.  The requesting user is not compared with the
\* loan's account.
PayLoanGet(w, u, loan_id, limit) ==
    /\ Free(w)
    /\ nreq < limit
    /\ nreq' = nreq + 1
    /\ LET r == Request("pay_account", "payloan", u, 0, 0, loan_id, 0, 0,
                        NoTransaction, "none")
       IN req' = [req EXCEPT ![w] =
                    IF loan_id \notin DOMAIN txns THEN Finish(r, "notfound")
                    ELSE IF ~txns[loan_id].loan_approve
                         THEN Finish([r EXCEPT !.loan = txns[loan_id]], "noop")
                         ELSE [r EXCEPT !.loan = txns[loan_id],
                                        !.amount = txns[loan_id].amount]]
    /\ UNCHANGED <<balance, txns, faults, report>>

\* get(): user_account = loan.account loads the account row;
\* if loan.amount < user_account.balance: user_account.balance -= loan.amount
PayLoanAccount(w) ==
    /\ req[w].pc = "pay_account"
    /\ LET bal == balance[req[w].loan.account]
       IN req' = [req EXCEPT ![w] =
                    IF req[w].loan.amount < bal
                    THEN [req[w] EXCEPT !.acct_balance = bal - req[w].loan.amount,
                                        !.pc = "pay_save_account"]
                    ELSE Finish([req[w] EXCEPT !.acct_balance = bal], "rejected")]
    /\ UNCHANGED <<balance, txns, nreq, faults, report>>

\* get(): user_account.save()
PayLoanSaveAccount(w) ==
    /\ req[w].pc = "pay_save_account"
    /\ balance' = [balance EXCEPT ![req[w].loan.account] = req[w].acct_balance]
    /\ req' = [req EXCEPT ![w].pc = "pay_save_loan"]
    /\ UNCHANGED <<txns, nreq, faults, report>>

\* get(): loan.balance_after_transactions = ... sets an attribute that is no
\* model field; loan.loan_approve = True; loan.transaction_type = LOAN_PAID
PaidLoan(loan) ==
    [loan EXCEPT !.loan_approve = TRUE, !.transaction_type = LOAN_PAID]

\* loan.save() had balance_after_transaction been the attribute assigned.
PayLoanSaveLoan_SetsBalanceAfter(w) ==
    /\ req[w].pc = "pay_save_loan"
    /\ txns' = [txns EXCEPT ![req[w].loan_id] =
                  [PaidLoan(req[w].loan) EXCEPT
                      !.balance_after_transaction = req[w].acct_balance]]
    /\ req' = [req EXCEPT ![w] = Finish(req[w], "ok")]
    /\ UNCHANGED <<balance, nreq, faults, report>>

\* get(): loan.save() writes every field of the in-memory instance.
PayLoanSaveLoan(w) ==
    /\ req[w].pc = "pay_save_loan"
    /\ txns' = [txns EXCEPT ![req[w].loan_id] = PaidLoan(req[w].loan)]
    /\ req' = [req EXCEPT ![w] = Finish(req[w], "ok")]
    /\ UNCHANGED <<balance, nreq, faults, report>>

-----------------------------------------------------------------------------
(* TransactionReportView *)

RECURSIVE SumAmount(_, _)
\* Sum('amount') over the rows from..to.
SumAmount(from, to) ==
    IF from > to THEN 0 ELSE txns[from].amount + SumAmount(from + 1, to)

\* get_queryset: self.balance.  Rows are ordered by timestamp, so a date
\* range selects the consecutive rows from..to, none when from > to (dates
\* in the wrong order, or a range in which nothing was logged); without both
\* dates the balance of request.user.account is shown.  The aggregate runs
\* over Transaction.objects filtered by the dates alone and is None over no
\* row.
ReportBalance(u, from, to) ==
    IF from = 0 /\ to = 0 THEN Shown(balance[u])
    ELSE IF from > to THEN None
    ELSE Shown(SumAmount(from, to))

\* get(): one query, the aggregate or the load of the account.
TransactionReport(u, from, to) ==
    /\ \/ from = 0 /\ to = 0
       \/ from >= 1 /\ from <= Len(txns) + 1 /\ to >= 0 /\ to <= Len(txns)
    /\ report' = Report(u, from, to, ReportBalance(u, from, to))
    /\ UNCHANGED <<balance, txns, req, nreq, faults>>

-----------------------------------------------------------------------------
(* UserUpdateForm *)

\* save(): user.save(), then UserBankAccount.objects.get_or_create(user=user)
\* loads the account row into a fresh instance; the get_or_create of the
\* address that follows touches no account.
UserUpdateStart(w, u, limit) ==
    /\ Free(w)
    /\ nreq < limit
    /\ nreq' = nreq + 1
    /\ req' = [req EXCEPT ![w] =
                 Request("prof_save", "profile", u, 0, 0, 0, balance[u], 0,
                         NoTransaction, "none")]
    /\ UNCHANGED <<balance, txns, faults, report>>

\* save(): user_account.save() has no update_fields and writes every column
\* of the loaded instance, the balance included.
UserUpdateSave(w) ==
    /\ req[w].pc = "prof_save"
    /\ balance' = [balance EXCEPT ![req[w].user] = req[w].acct_balance]
    /\ req' = [req EXCEPT ![w] = Finish(req[w], "ok")]
    /\ UNCHANGED <<txns, nreq, faults, report>>

-----------------------------------------------------------------------------
(* Notification *)

\* send_transaction_email: send_email.send() raises; the exception leaves the
\* view before the form is saved.
MailFail(w) ==
    /\ req[w].pc \in {"dep_log", "wd_log", "loan_log", "xfer_log"}
    /\ faults' = faults + 1
    /\ req' = [req EXCEPT ![w] = Finish(req[w], "error")]
    /\ UNCHANGED <<balance, txns, nreq, report>>

-----------------------------------------------------------------------------
(* The concurrent server: every worker serves requests of any user. *)

LoanIds == 1 .. (Len(txns) + 1)

Next ==
    \/ \E w \in Workers, u \in Users, amount \in DepositAmounts :
          DepositStart(w, u, amount, MaxRequests)
    \/ \E w \in Workers : DepositSave(w)
    \/ \E w \in Workers : DepositLog(w)
    \/ \E w \in Workers, u \in Users, amount \in WithdrawAmounts :
          WithdrawStart(w, u, amount, MaxRequests)
    \/ \E w \in Workers : WithdrawSave(w)
    \/ \E w \in Workers : WithdrawLog(w)
    \/ \E w \in Workers, u \in Users, amount \in TransferAmounts,
          account_no \in AccountNos :
          TransferStart(w, u, amount, account_no, MaxRequests)
    \/ \E w \in Workers : TransferGet(w)
    \/ \E w \in Workers : TransferSaveReceiver(w)
    \/ \E w \in Workers : TransferSaveSender(w)
    \/ \E w \in Workers : TransferLog(w)
    \/ \E w \in Workers, u \in Users, amount \in LoanAmounts :
          LoanStart(w, u, amount, MaxRequests)
    \/ \E w \in Workers : LoanCount(w)
    \/ \E w \in Workers : LoanLog(w)
    \/ \E id \in DOMAIN txns : ApproveLoan(id)
    \/ \E w \in Workers, u \in Users, loan_id \in LoanIds :
          PayLoanGet(w, u, loan_id, MaxRequests)
    \/ \E w \in Workers : PayLoanAccount(w)
    \/ \E w \in Workers : PayLoanSaveAccount(w)
    \/ \E w \in Workers : PayLoanSaveLoan(w)
    \/ \E w \in Workers : MailFail(w)
    \/ \E w \in Workers, u \in Users : UserUpdateStart(w, u, MaxRequests)
    \/ \E w \in Workers : UserUpdateSave(w)

Spec == Init /\ [][Next]_vars

-----------------------------------------------------------------------------
(* The sequential server: one worker serves the requests of one user, one   *)
(* after the other, over the boundary balances and amounts of the forms.    *)

SeqInit ==
    /\ balance \in {[u \in Users |-> IF u = SeqUser THEN b ELSE 0] :
                       b \in BoundaryBalances}
    /\ txns = OpeningLog(balance)
    /\ req = [w \in Workers |-> IdleRequest]
    /\ nreq = 0
    /\ faults = 0
    /\ report = NoReport

SeqNext ==
    \/ \E amount \in BoundaryAmounts :
          DepositStart(SeqWorker, SeqUser, amount, MaxSeqRequests)
    \/ DepositSave(SeqWorker)
    \/ DepositLog(SeqWorker)
    \/ \E amount \in BoundaryAmounts :
          WithdrawStart(SeqWorker, SeqUser, amount, MaxSeqRequests)
    \/ WithdrawSave(SeqWorker)
    \/ WithdrawLog(SeqWorker)
    \/ \E amount \in BoundaryAmounts, account_no \in AccountNos :
          TransferStart(SeqWorker, SeqUser, amount, account_no, MaxSeqRequests)
    \/ TransferGet(SeqWorker)
    \/ TransferSaveReceiver(SeqWorker)
    \/ TransferSaveSender(SeqWorker)
    \/ TransferLog(SeqWorker)
    \/ \E amount \in LoanAmounts :
          LoanStart(SeqWorker, SeqUser, amount, MaxSeqRequests)
    \/ LoanCount(SeqWorker)
    \/ LoanLog(SeqWorker)
    \/ \E id \in DOMAIN txns : ApproveLoan(id)
    \/ \E loan_id \in LoanIds :
          PayLoanGet(SeqWorker, SeqUser, loan_id, MaxSeqRequests)
    \/ PayLoanAccount(SeqWorker)
    \/ PayLoanSaveAccount(SeqWorker)
    \/ PayLoanSaveLoan(SeqWorker)
    \/ MailFail(SeqWorker)
    \/ UserUpdateStart(SeqWorker, SeqUser, MaxSeqRequests)
    \/ UserUpdateSave(SeqWorker)

SpecSeq == SeqInit /\ [][SeqNext]_vars

-----------------------------------------------------------------------------
(* The loan desk: the first account has asked for loans that wait for their *)
(* approval; every worker serves loan requests and payoffs of any user.     *)

MaxLoanRequests == 2
OpenLoanCounts == 0 .. 3
LoanOpeningBalances == {1000, 2000}

\* The rows of n accepted loan requests of u, none approved yet: each was
\* saved by LoanLog while the account held bal.
OpenLoans(u, amount, bal, n) ==
    [i \in 1 .. n |-> Transaction(u, amount, LOAN, bal, FALSE)]

LoanInit ==
    /\ balance \in {[u \in Users |-> IF u = SeqUser THEN b ELSE 0] :
                       b \in LoanOpeningBalances}
    /\ \E n \in OpenLoanCounts, amount \in LoanAmounts :
          txns = OpeningLog(balance)
                   \o OpenLoans(SeqUser, amount, balance[SeqUser], n)
    /\ req = [w \in Workers |-> IdleRequest]
    /\ nreq = 0
    /\ faults = 0
    /\ report = NoReport

LoanNext ==
    \/ \E w \in Workers, u \in Users, amount \in LoanAmounts :
          LoanStart(w, u, amount, MaxLoanRequests)
    \/ \E w \in Workers : LoanCount(w)
    \/ \E w \in Workers : LoanLog(w)
    \/ \E id \in DOMAIN txns : ApproveLoan(id)
    \/ \E w \in Workers, u \in Users, loan_id \in LoanIds :
          PayLoanGet(w, u, loan_id, MaxLoanRequests)
    \/ \E w \in Workers : PayLoanAccount(w)
    \/ \E w \in Workers : PayLoanSaveAccount(w)
    \/ \E w \in Workers : PayLoanSaveLoan(w)
    \/ \E w \in Workers : MailFail(w)
    \/ \E w \in Workers, u \in Users :
          UserUpdateStart(w, u, MaxLoanRequests)
    \/ \E w \in Workers : UserUpdateSave(w)

SpecLoan == LoanInit /\ [][LoanNext]_vars

-----------------------------------------------------------------------------
(* The report desk: one worker serves deposits and withdrawals of any user, *)
(* and any user asks for the transaction report, with or without dates.     *)

ReportRows == 0 .. (Len(txns) + 1)

ReportNext ==
    \/ \E u \in Users, amount \in DepositAmounts :
          DepositStart(SeqWorker, u, amount, MaxSeqRequests)
    \/ DepositSave(SeqWorker)
    \/ DepositLog(SeqWorker)
    \/ \E u \in Users, amount \in WithdrawAmounts :
          WithdrawStart(SeqWorker, u, amount, MaxSeqRequests)
    \/ WithdrawSave(SeqWorker)
    \/ WithdrawLog(SeqWorker)
    \/ MailFail(SeqWorker)
    \/ \E u \in Users, from \in ReportRows, to \in ReportRows :
          TransactionReport(u, from, to)

SpecReport == Init /\ [][ReportNext]_vars

-----------------------------------------------------------------------------
(* Properties *)

\* Signed amount of a row: a deposit credits its account; a withdrawal, the
\* sender's transfer row and a paid loan debit it; a loan request moves no
\* money.
SignedAmount(t) ==
    CASE t.transaction_type = DEPOSIT -> t.amount
      [] t.transaction_type = WITHDRAWAL -> 0 - t.amount
      [] t.transaction_type = TRANSFER -> 0 - t.amount
      [] t.transaction_type = LOAN_PAID -> 0 - t.amount
      [] OTHER -> 0

RECURSIVE LedgerSumUpTo(_, _)
LedgerSumUpTo(a, n) ==
    IF n = 0 THEN 0
    ELSE LedgerSumUpTo(a, n - 1)
         + (IF txns[n].account = a THEN SignedAmount(txns[n]) ELSE 0)

LedgerSum(a) == LedgerSumUpTo(a, Len(txns))

\* C1: whenever no request is in progress and no notification has failed,
\* every account's balance equals the sum of the signed amounts of the rows
\* of that account, the receiving account of a transfer included.
C1_LedgerMatchesBalance ==
    (AllIdle /\ faults = 0) => \A a \in Users : balance[a] = LedgerSum(a)

\* C2: under every interleaving of the requests, no stored balance is ever
\* negative.
C2_BalanceNeverNegative == \A a \in Users : balance[a] >= 0

\* Two withdrawals of 600 from the same account holding 1000 were both
\* admitted against the balance they read and both committed.
C2_Witness ==
    /\ \A w \in Workers :
          /\ Idle(w) /\ req[w].op = "withdraw" /\ req[w].result = "ok"
          /\ req[w].user = "A" /\ req[w].amount = 600
    /\ balance["A"] = 400

\* Sum of the opening deposits of an account (the rows written before any
\* request of the run, when the run made no deposit).
RECURSIVE DepositSumUpTo(_, _)
DepositSumUpTo(a, n) ==
    IF n = 0 THEN 0
    ELSE DepositSumUpTo(a, n - 1)
         + (IF txns[n].account = a /\ txns[n].transaction_type = DEPOSIT
            THEN txns[n].amount ELSE 0)

\* C3: when the only two requests of a run are a transfer A->B of x and a
\* transfer B->A of y, each admissible against the balances a and b the run
\* started from, and both have completed, A holds a - x + y and B holds
\* b + x - y.
C3_OppositeTransfersSerial ==
    \A w1, w2 \in Workers :
        ( /\ nreq = 2 /\ w1 # w2
          /\ Idle(w1) /\ req[w1].op = "transfer" /\ req[w1].result = "ok"
          /\ Idle(w2) /\ req[w2].op = "transfer" /\ req[w2].result = "ok"
          /\ req[w1].user = "A" /\ req[w1].account_no = AccountNo("B")
          /\ req[w2].user = "B" /\ req[w2].account_no = AccountNo("A")
          /\ req[w1].amount <= DepositSumUpTo("A", Len(txns))
          /\ req[w2].amount <= DepositSumUpTo("B", Len(txns)) )
        =>
        ( /\ balance["A"] = DepositSumUpTo("A", Len(txns))
                              - req[w1].amount + req[w2].amount
          /\ balance["B"] = DepositSumUpTo("B", Len(txns))
                              + req[w1].amount - req[w2].amount )

\* Worker w has read the balance of account a and has not yet written it.
InFlightOn(w, a) ==
    \/ req[w].pc \in {"dep_save", "wd_save"} /\ req[w].user = a
    \/ req[w].pc \in {"xfer_get", "xfer_save_recv", "xfer_save_send"}
         /\ req[w].user = a
    \/ req[w].pc = "xfer_save_recv" /\ AccountByNo(req[w].account_no) = a
    \/ req[w].pc = "pay_save_account" /\ req[w].loan.account = a

\* C4: at any moment at most one mutating request is between its read and
\* its write of an account's balance.
C4_OneMutationInFlight ==
    \A a \in Users : Cardinality({w \in Workers : InFlightOn(w, a)}) <= 1

\* The request of w (a deposit, withdrawal or transfer) has written a balance.
BalanceWritten(w) ==
    \/ req[w].pc \in {"dep_log", "wd_log", "xfer_save_send", "xfer_log"}
    \/ Idle(w) /\ req[w].result \in {"ok", "error"}

\* The request of w has appended its row.
RecordAppended(w) == Idle(w) /\ req[w].result = "ok"

\* C5: in no state is the balance of a deposit, withdrawal or transfer
\* already written while its row does not exist, nor the reverse.
C5_BalanceAndRecordAtomic ==
    \A w \in Workers :
        req[w].op \in {"deposit", "withdraw", "transfer"}
        => (BalanceWritten(w) <=> RecordAppended(w))

\* C6: every completed transfer from a sender to another account has left a
\* transfer row of its amount on the sender and one on the receiver.
C6_TransferRowsPaired ==
    \A w \in Workers :
        ( /\ Idle(w) /\ req[w].op = "transfer" /\ req[w].result = "ok"
          /\ req[w].account_no # AccountNo(req[w].user) )
        => /\ \E i \in DOMAIN txns :
                 /\ txns[i].account = req[w].user
                 /\ txns[i].transaction_type = TRANSFER
                 /\ txns[i].amount = req[w].amount
           /\ \E j \in DOMAIN txns :
                 /\ txns[j].account = AccountByNo(req[w].account_no)
                 /\ txns[j].transaction_type = TRANSFER
                 /\ txns[j].amount = req[w].amount

\* C7: a transfer whose account number is the sender's own, or names no
\* account, is rejected at once and never proceeds to a balance update.
C7_TransferNeedsOtherExistingAccount ==
    \A w \in Workers :
        ( /\ req[w].op = "transfer"
          /\ \/ req[w].account_no = AccountNo(req[w].user)
             \/ ~\E u \in Users : AccountNo(u) = req[w].account_no )
        => (Idle(w) /\ req[w].result = "rejected")

\* The bounds of the claim on a withdrawal or transfer of amount from bal.
Admissible(bal, amount) == amount >= 500 /\ amount <= 20000 /\ amount <= bal

\* C8: a withdrawal or transfer is rejected if the amount is below 500, above
\* 20000 or above the account's balance, and admitted otherwise (a transfer
\* given an existing receiver account number).
C8_WithdrawTransferAdmission ==
    \A w \in Workers :
        LET r == req[w]
            bal == balance[r.user]
            exists == \E u \in Users : AccountNo(u) = r.account_no
        IN /\ (r.op = "withdraw" /\ r.pc = "wd_save") => Admissible(bal, r.amount)
           /\ (r.op = "withdraw" /\ Idle(w) /\ r.result = "rejected")
                 => ~Admissible(bal, r.amount)
           /\ (r.op = "transfer" /\ r.pc = "xfer_get")
                 => (Admissible(bal, r.amount) /\ exists)
           /\ (r.op = "transfer" /\ Idle(w) /\ r.result = "rejected")
                 => ~(Admissible(bal, r.amount) /\ exists)

\* A withdrawal of the whole balance, 20000, has been admitted.
C8_Witness ==
    \E w \in Workers :
        /\ req[w].op = "withdraw" /\ req[w].pc = "wd_save"
        /\ req[w].amount = 20000 /\ balance[req[w].user] = 20000

\* C9: a withdrawal of x loads the balance b of the account; with x > b it is
\* rejected and changes neither balance nor rows; admitted, its save writes
\* exactly b - x to the account and its completion appends exactly one
\* Withdrawal row whose balance_after is b - x.
C9_WithdrawEffect ==
    [][\A w \in Workers :
        LET r == req[w]
            r2 == req'[w]
        IN /\ (Idle(w) /\ r2 # r /\ r2.op = "withdraw") =>
                 /\ balance' = balance /\ txns' = txns
                 /\ r2.amount > balance[r2.user]
                       => (r2.pc = "idle" /\ r2.result = "rejected")
                 /\ r2.pc = "wd_save" => r2.acct_balance = balance[r2.user]
           /\ (r.pc = "wd_save" /\ r2.pc # "wd_save") =>
                 /\ balance' = [balance EXCEPT
                                  ![r.user] = r.acct_balance - r.amount]
                 /\ r2.acct_balance = r.acct_balance - r.amount
                 /\ txns' = txns
           /\ (r.pc = "wd_log" /\ r2.result = "ok") =>
                 /\ balance' = balance
                 /\ txns' = Append(txns, Transaction(r.user, r.amount,
                                      WITHDRAWAL, r.acct_balance, FALSE))
      ]_vars

\* From 1000, a withdrawal of 500 left 500 and one Withdrawal row with
\* balance_after 500; the withdrawal of 600 that followed was rejected.
C9_Witness ==
    \E w \in Workers :
        /\ Idle(w) /\ req[w].op = "withdraw" /\ req[w].user = "A"
        /\ req[w].amount = 600 /\ req[w].result = "rejected"
        /\ balance["A"] = 500
        /\ Len(txns) = 3
        /\ txns[1] = Transaction("A", 1000, DEPOSIT, 1000, FALSE)
        /\ txns[3] = Transaction("A", 500, WITHDRAWAL, 500, FALSE)

\* C10: a deposit is rejected exactly when its amount is below 100, and then
\* changes neither balance nor rows; admitted, its save writes the loaded
\* balance plus the amount and its completion appends exactly one Deposit
\* row.
C10_DepositEffect ==
    [][\A w \in Workers :
        LET r == req[w]
            r2 == req'[w]
        IN /\ (Idle(w) /\ r2 # r /\ r2.op = "deposit") =>
                 /\ balance' = balance /\ txns' = txns
                 /\ (r2.pc = "idle" /\ r2.result = "rejected") <=> r2.amount < 100
                 /\ r2.amount >= 100 =>
                       (r2.pc = "dep_save" /\ r2.acct_balance = balance[r2.user])
           /\ (r.pc = "dep_save" /\ r2.pc # "dep_save") =>
                 /\ balance' = [balance EXCEPT
                                  ![r.user] = r.acct_balance + r.amount]
                 /\ r2.acct_balance = r.acct_balance + r.amount
                 /\ txns' = txns
           /\ (r.pc = "dep_log" /\ r2.result = "ok") =>
                 /\ balance' = balance
                 /\ txns' = Append(txns, Transaction(r.user, r.amount,
                                      DEPOSIT, r.acct_balance, FALSE))
      ]_vars

\* A deposit of exactly 100 into a fresh account has completed.
C10_Witness ==
    \E w \in Workers :
        /\ Idle(w) /\ req[w].op = "deposit" /\ req[w].user = "A"
        /\ req[w].amount = 100 /\ req[w].result = "ok"
        /\ balance["A"] = 100
        /\ txns = <<Transaction("A", 100, DEPOSIT, 100, FALSE)>>

\* C11: a transfer whose amount exceeds the sender's balance is rejected when
\* it is submitted, and that step changes no balance and no row; the rejected
\* request has no further step.
C11_RejectedTransferNoEffect ==
    [][\A w \in Workers :
        LET r2 == req'[w]
        IN (Idle(w) /\ r2 # req[w] /\ r2.op = "transfer"
              /\ r2.amount > balance[r2.user]) =>
                 /\ r2.pc = "idle" /\ r2.result = "rejected"
                 /\ balance' = balance
                 /\ txns' = txns
      ]_vars

\* transfer(A, B, 600) with A holding 500 was rejected: A still holds 500,
\* B holds nothing and the log has A's opening deposit alone.
C11_Witness ==
    \E w \in Workers :
        /\ Idle(w) /\ req[w].op = "transfer" /\ req[w].user = "A"
        /\ req[w].amount = 600 /\ req[w].account_no = AccountNo("B")
        /\ req[w].result = "rejected"
        /\ nreq = 1
        /\ balance["A"] = 500 /\ balance["B"] = 0
        /\ txns = <<Transaction("A", 500, DEPOSIT, 500, FALSE)>>

\* The loans of account a that are approved and not yet paid.
ApprovedUnpaid(a) ==
    {i \in DOMAIN txns :
        /\ txns[i].account = a
        /\ txns[i].transaction_type \in {LOAN, LOAN_PAID}
        /\ txns[i].loan_approve
        /\ txns[i].transaction_type # LOAN_PAID}

\* C12: a loan request is rejected exactly when its account has 3 or more
\* approved and unpaid loans at the time of the check, and a rejected request
\* changes no balance and no row; with fewer than 3 it is accepted, and its
\* completion appends exactly one LoanRequest row of the account and changes
\* no balance.
C12_LoanLimitAdmission ==
    [][\A w \in Workers :
        LET r == req[w]
            r2 == req'[w]
        IN /\ (Idle(w) /\ r2 # r /\ r2.op = "loan") =>
                 (r2.pc = "loan_count" /\ balance' = balance /\ txns' = txns)
           /\ (r.pc = "loan_count" /\ r2.pc # "loan_count") =>
                 /\ (r2.pc = "idle" /\ r2.result = "rejected")
                       <=> Cardinality(ApprovedUnpaid(r.user)) >= 3
                 /\ Cardinality(ApprovedUnpaid(r.user)) < 3 => r2.pc = "loan_log"
                 /\ balance' = balance /\ txns' = txns
           /\ (r.pc = "loan_log" /\ r2.result = "ok") =>
                 /\ balance' = balance
                 /\ Len(txns') = Len(txns) + 1
                 /\ SubSeq(txns', 1, Len(txns)) = txns
                 /\ txns'[Len(txns')].account = r.user
                 /\ txns'[Len(txns')].transaction_type = LOAN
      ]_vars

\* An earlier request was accepted and got its row, the fifth of the log;
\* now three loans of A are approved and unpaid, and A's next request has
\* been rejected.
C12_Witness ==
    \E w \in Workers :
        /\ Idle(w) /\ req[w].op = "loan" /\ req[w].user = "A"
        /\ req[w].result = "rejected"
        /\ nreq = 2
        /\ Cardinality(ApprovedUnpaid("A")) = 3
        /\ Len(txns) = 5
        /\ txns[5] = Transaction("A", 500, LOAN, balance["A"], FALSE)

\* C13: in every reachable state every account has at most 3 loans that are
\* approved and not yet paid.
C13_AtMostThreeApprovedUnpaid ==
    \A a \in Users : Cardinality(ApprovedUnpaid(a)) <= 3

\* C14: payLoan by its owner on an approved loan of amount x whose account
\* holds b: with x >= b it is rejected and changes neither balance nor rows;
\* with x < b the step that writes b - x to the account also turns the
\* loan's row into a paid loan.  payLoan on a loan that is not approved
\* changes nothing.
C14_PayLoanEffect ==
    [][\A w \in Workers :
        LET r == req[w]
            r2 == req'[w]
        IN /\ (Idle(w) /\ r2 # r /\ r2.op = "payloan") =>
                 /\ balance' = balance /\ txns' = txns
                 /\ (r2.loan_id \in DOMAIN txns
                       /\ ~txns[r2.loan_id].loan_approve) => r2.pc = "idle"
           /\ (r.pc = "pay_account" /\ r2.pc # "pay_account") =>
                 /\ balance' = balance /\ txns' = txns
                 /\ r.loan.amount >= balance[r.loan.account]
                       => (r2.pc = "idle" /\ r2.result = "rejected")
                 /\ r.loan.amount < balance[r.loan.account]
                       => r2.acct_balance
                            = balance[r.loan.account] - r.loan.amount
           /\ (r.op = "payloan" /\ r.user = r.loan.account
                 /\ r2 # r /\ balance' # balance) =>
                 /\ balance' = [balance EXCEPT
                                  ![r.loan.account] = r.acct_balance]
                 /\ txns'[r.loan_id].transaction_type = LOAN_PAID
      ]_vars

\* C15: Paid is terminal: a payLoan of the owner that finds its row already
\* paid, or not a loan at all, writes no balance, and while no request is in
\* progress every account holds at least its deposits less each paid loan
\* once.
C15_PaidIsTerminal ==
    /\ \A w \in Workers :
          (req[w].op = "payloan"
             /\ req[w].loan_id \in DOMAIN txns
             /\ req[w].user = req[w].loan.account
             /\ req[w].loan.transaction_type # LOAN)
             => req[w].pc # "pay_save_loan"
    /\ AllIdle => \A a \in Users : balance[a] >= LedgerSum(a)

RECURSIVE AccountSumAmount(_, _, _)
\* The sum of the amounts of the rows from..to that belong to account a.
AccountSumAmount(a, from, to) ==
    IF from > to THEN 0
    ELSE (IF txns[from].account = a THEN txns[from].amount ELSE 0)
         + AccountSumAmount(a, from + 1, to)

\* C16: a report without a date range shows the live balance of the user's
\* account; a report with a range shows the sum of the amounts of that
\* account's rows inside the range, whatever other accounts' rows the range
\* holds.
C16_ReportOwnAccountOnly ==
    [][report' # report =>
         IF report'.from = 0 /\ report'.to = 0
         THEN report'.balance = Shown(balance[report'.user])
         ELSE report'.balance
                = Shown(AccountSumAmount(report'.user, report'.from,
                                         report'.to))
      ]_vars

\* The kind of row a mutating operation logs.
KindOf(op) ==
    CASE op = "deposit" -> DEPOSIT
      [] op = "withdraw" -> WITHDRAWAL
      [] op = "transfer" -> TRANSFER
      [] OTHER -> "none"

\* C17: on the sequential server, when the notification of an admitted
\* deposit, withdrawal or transfer has failed, the request's row is the last
\* of the log and its balance_after is the balance of the account.
C17_MailFailureKeepsRecord ==
    \A w \in Workers :
        (Idle(w) /\ req[w].result = "error"
           /\ req[w].op \in {"deposit", "withdraw", "transfer"}) =>
              /\ Len(txns) > 0
              /\ txns[Len(txns)].account = req[w].user
              /\ txns[Len(txns)].amount = req[w].amount
              /\ txns[Len(txns)].transaction_type = KindOf(req[w].op)
              /\ txns[Len(txns)].balance_after_transaction
                   = balance[req[w].user]

\* C18: no step deletes a row or changes the account, the amount or the
\* balance_after of an existing row; a row changes only when a payoff turns
\* it into a paid loan, or when the manual approval sets loan_approve on a
\* requested loan.
C18_RecordsImmutable ==
    [][/\ Len(txns') >= Len(txns)
       /\ \A i \in DOMAIN txns :
             /\ txns'[i].account = txns[i].account
             /\ txns'[i].amount = txns[i].amount
             /\ txns'[i].balance_after_transaction
                  = txns[i].balance_after_transaction
             /\ txns'[i] # txns[i] =>
                   \/ /\ \E w \in Workers : /\ req[w].pc = "pay_save_loan"
                                            /\ req[w].loan_id = i
                                            /\ req'[w].result = "ok"
                      /\ txns'[i].transaction_type = LOAN_PAID
                      /\ txns'[i].loan_approve
                   \/ /\ req' = req
                      /\ txns[i].transaction_type = LOAN
                      /\ txns'[i] = [txns[i] EXCEPT !.loan_approve = TRUE]
      ]_vars

\* The loan of 500 that A requested while holding 1000 has been paid: its row
\* is a paid loan that still shows 500 and balance_after 1000, and A holds
\* 500.
C18_Witness ==
    /\ AllIdle
    /\ balance["A"] = 500
    /\ Len(txns) >= 2
    /\ txns[2] = Transaction("A", 500, LOAN_PAID, 1000, TRUE)

RECURSIVE MoneyPutInUpTo(_)
\* What the first n rows put into the bank: deposits, less withdrawals and
\* paid loans; a transfer puts nothing in and takes nothing out.
MoneyPutInUpTo(n) ==
    IF n = 0 THEN 0
    ELSE MoneyPutInUpTo(n - 1)
         + (IF txns[n].transaction_type = TRANSFER THEN 0
            ELSE SignedAmount(txns[n]))

\* C19: transfers conserve money: whenever the sequential server is idle and
\* no notification has failed, the balances of all accounts add up to the
\* deposits less the withdrawals and paid loans, whatever transfers were
\* made and to whichever admitted receiver.
C19_TransfersConserveMoney ==
    (AllIdle /\ faults = 0) =>
        balance["A"] + balance["B"] = MoneyPutInUpTo(Len(txns))

\* C20: a step of a request of user U never lowers the balance of an account
\* other than U's and never changes a row of such an account.
C20_OnlyOwnAccountAffected ==
    [][\A w \in Workers :
        req'[w] # req[w] =>
           \A a \in Users \ {req'[w].user} :
              /\ balance'[a] >= balance[a]
              /\ \A i \in DOMAIN txns :
                    txns[i].account = a => txns'[i] = txns[i]
      ]_vars

\* C21: no step of a loan request changes the balance of any account; the
\* request reads the balance its account holds, and the completion of an
\* accepted request appends exactly one row, a loan request of the account
\* for the amount asked, not approved, whose balance_after is that balance,
\* and changes no other row.
C21_LoanRequestFrame ==
    [][\A w \in Workers :
        LET r == req[w]
            r2 == req'[w]
        IN /\ (r2 # r /\ r2.op = "loan") => balance' = balance
           /\ (Idle(w) /\ r2 # r /\ r2.op = "loan") =>
                 (r2.acct_balance = balance[r2.user] /\ txns' = txns)
           /\ (r.pc = "loan_count" /\ r2 # r) =>
                 /\ r2.pc = "loan_log" => r2.acct_balance = r.acct_balance
                 /\ txns' = txns
           /\ (r.pc = "loan_log" /\ r2.result = "ok") =>
                 txns' = Append(txns, Transaction(r.user, r.amount, LOAN,
                                         r.acct_balance, FALSE))
      ]_vars

\* A's request for a loan of 500 was accepted while A held 1000: A still
\* holds 1000, B holds nothing, and the log has gained the one row.
C21_Witness ==
    \E w \in Workers :
        /\ Idle(w) /\ req[w].op = "loan" /\ req[w].user = "A"
        /\ req[w].amount = 500 /\ req[w].result = "ok"
        /\ nreq = 1
        /\ balance["A"] = 1000 /\ balance["B"] = 0
        /\ txns = <<Transaction("A", 1000, DEPOSIT, 1000, FALSE),
                    Transaction("A", 500, LOAN, 1000, FALSE)>>

====
